---- MODULE Spec2Model ----
(***************************************************************************)
(* A model of the cer-manager daemon (YLonely/cr-daemon):                  *)
(*   - the connection server (cermanager/server.go): accept loop, one      *)
(*     serve goroutine per connection, the wait group, Shutdown;           *)
(*   - the namespace service (services/namespace): Get / Put routed to a   *)
(*     per-type manager;                                                   *)
(*   - the checkpoint service (services/checkpoint): Get under the service *)
(*     mutex, provider.Prepare, Stop with provider.Remove;                 *)
(*   - the start command (cmd/cermanager/start.go): wait, cancel, Shutdown.*)
(* The generic namespace pool (namespace/generic) and the method router    *)
(* (services.Router) are not part of the sources at hand; they are         *)
(* modelled from the design document and marked as such.                   *)
(*                                                                         *)
(* Granularity.  A serve-loop iteration (ReceiveServiceType, Handle, the   *)
(* receive of method and body, the manager call, the send, and the         *)
(* select on ctx.Done) is one action: everything in it except the manager  *)
(* call is local to the connection, and the manager call is one critical   *)
(* section.  A checkpoint Get that reaches provider.Prepare is two         *)
(* actions, so that other goroutines run while Prepare is in progress.     *)
(* `ev` describes the step just taken (the request read, the response      *)
(* written, for a namespace request the pools before it as `pre`), so that *)
(* properties of single requests are state predicates.                     *)
(***************************************************************************)
EXTENDS Integers, Sequences, FiniteSets, TLC

VARIABLES
  managers,      \* namespaceService.managers: type -> pool [all, available]
  outstanding,   \* per type, the NSIds handed to clients and not yet put back (a bag)
  targets,       \* service.targets: the set of prepared target paths
  dirs,          \* target directories that exist on disk
  m,             \* service.m: 0 when free, else the connection holding it
  prepCalls,     \* per ref, how often provider.Prepare was invoked
  prepOks,       \* per ref, how often provider.Prepare returned nil
  faults,        \* provider / filesystem failures injected so far
  removeCalls,   \* per path, how often provider.Remove was invoked
  stopErr,       \* the targets whose Remove failed (service.Stop's `failed`)
  stopPending,   \* targets service.Stop's range loop has yet to visit
  stopped,       \* the services whose Stop has returned
  stopping,      \* the service whose Stop is running, or "none"
  conn,          \* per connection: "none", "open" or "closed" (closed by the daemon)
  pc,            \* per connection, its serve goroutine: "none","recv","prepare","done"
  cref,          \* per connection, the ref of the Get that is inside Prepare
  group,         \* Server.group: the wait group's counter
  cancelled,     \* ctx.Done() is closed
  acceptPc,      \* the accept goroutine: "accept" or "done"
  errorC,        \* errors buffered in errorC (capacity 1)
  mainPc,        \* start command: "serving","waiting","stopping","exited","crashed"
  ev             \* the step just taken

vars == <<managers, outstanding, targets, dirs, m, prepCalls, prepOks, faults, removeCalls, stopErr, stopPending, stopped, stopping,
          conn, pc, cref, group, cancelled, acceptPc, errorC,
          mainPc, ev>>

nsVars == <<managers, outstanding>>
cpVars == <<targets, dirs, m, prepCalls, prepOks, faults>>
stopVars == <<removeCalls, stopErr, stopPending, stopped, stopping>>
srvVars == <<group, cancelled, acceptPc, errorC, mainPc>>

----------------------------------------------------------------------------
(* Bounds of the model *)

\* connections the accept loop may accept
MaxConns == 2
\* capacity configured for the UTS pool
CapUTS == 2
\* provider.Prepare / os.MkdirAll failures that may occur
MaxFaults == 1

Conns == 1..MaxConns

----------------------------------------------------------------------------
(* Namespace types and the configuration *)

UTS == "UTS"
IPC == "IPC"
MNT == "MNT"
\* the keys of namespaceService.managers after Init
NsTypes == {UTS, IPC, MNT}
\* the types a request may carry: the three above and one no manager serves
ReqTypes == NsTypes \cup {"NET"}

\* serviceConfig.Capacity of the configuration modelled: a UTS pool of
\* CapUTS, an IPC pool of one, and a zero-capacity MNT pool
Capacity == [t \in NsTypes |-> IF t = UTS THEN CapUTS ELSE IF t = IPC THEN 1 ELSE 0]

\* ids a Put request may carry: every slot id and one past the largest
PutIds == 0..CapUTS

\* the Put requests <<T, ID>> a client sends: every id of PutIds to the UTS
\* pool, and id 0 to each other type
PutRequests == {<<UTS, i>> : i \in PutIds} \cup {<<t, 0>> : t \in ReqTypes \ {UTS}}

\* os.Getpid()
DaemonPid == 4242

ErrNoSuchNamespace == "No such namespace"
ErrExhausted == "Exhausted"
ErrUnknownId == "UnknownId"
ErrNotInUse == "NotInUse"

----------------------------------------------------------------------------
(* The generic pool (namespace/generic), modelled from the design document *)

\* first descriptor number the daemon can obtain for a namespace file
FirstFd == 3

TypeIx(t) == IF t = UTS THEN 0 ELSE IF t = IPC THEN 1 ELSE 2

\* the descriptor held by slot id of the pool of type t
Handle(t, id) == FirstFd + TypeIx(t) * (CapUTS + 1) + id

\* generic.NewManager: capacity resources with ids 0..capacity-1, created in
\* that order and all available
NewManager(capacity) ==
  [all |-> 0..(capacity - 1), available |-> [i \in 1..capacity |-> i - 1]]

\* Manager.Get: pop the top of available, or fail with Exhausted
PoolGet(t, p) ==
  IF p.available = <<>>
  THEN [id |-> 0, fd |-> 0, info |-> "", err |-> ErrExhausted, pool |-> p]
  ELSE LET id == p.available[Len(p.available)]
       IN [id |-> id, fd |-> Handle(t, id), info |-> "", err |-> "",
           pool |-> [p EXCEPT !.available = SubSeq(p.available, 1, Len(p.available) - 1)]]

InSeq(x, s) == \E i \in 1..Len(s) : s[i] = x

\* Manager.Put: push id back; UnknownId if not a slot, NotInUse if already available
PoolPut(p, id) ==
  IF id \notin p.all THEN [err |-> ErrUnknownId, pool |-> p]
  ELSE IF InSeq(id, p.available) THEN [err |-> ErrNotInUse, pool |-> p]
  ELSE [err |-> "", pool |-> [p EXCEPT !.available = Append(p.available, id)]]

----------------------------------------------------------------------------
(* Paths and refs.  A path or ref is the sequence of its "/"-separated      *)
(* elements; an absolute path starts with the element "/"; "" is <<>>.      *)

EmptyRef == <<>>
\* the refs a client may send: "", "a", "b" and "a/." (which names a's target)
Refs == {EmptyRef, <<"a">>, <<"b">>, <<"a", ".">>}

\* service.root = path.Join(DefaultRootPath, "checkpoint")
Root == <<"/", "var", "lib", "cermanager", "checkpoint">>

RECURSIVE CleanFrom(_, _)
\* path.Clean on the elements `rest`, with `acc` the cleaned prefix so far
CleanFrom(acc, rest) ==
  IF rest = <<>> THEN acc
  ELSE LET e == Head(rest)
           acc2 == IF e = "." \/ e = "" THEN acc
                   ELSE IF e = ".."
                        THEN IF Len(acc) > 1 THEN SubSeq(acc, 1, Len(acc) - 1) ELSE acc
                        ELSE Append(acc, e)
       IN CleanFrom(acc2, Tail(rest))

\* path.Join(dir, ref) for an absolute, clean dir
PathJoin(dir, ref) == CleanFrom(<<"/">>, Tail(dir) \o ref)

\* the targets the refs of the model name
Paths == {PathJoin(Root, r) : r \in Refs \ {EmptyRef}}

NoPath == <<>>

NoEvent == [op |-> "none"]


----------------------------------------------------------------------------
(* Initial state: NewServer has returned (both services initialised, the    *)
(* listener is open) and Start has launched the accept goroutine.           *)

Init ==
  /\ managers = [t \in NsTypes |-> NewManager(Capacity[t])]
  /\ outstanding = [t \in NsTypes |-> [i \in PutIds |-> 0]]
  /\ targets = {}
  /\ dirs = {}
  /\ m = 0
  /\ prepCalls = [r \in Refs |-> 0]
  /\ prepOks = [r \in Refs |-> 0]
  /\ faults = 0
  /\ removeCalls = [p \in Paths |-> 0]
  /\ stopErr = {}
  /\ stopPending = {}
  /\ stopped = {}
  /\ stopping = "none"
  /\ conn = [c \in Conns |-> "none"]
  /\ pc = [c \in Conns |-> "none"]
  /\ cref = [c \in Conns |-> EmptyRef]
  /\ group = 0
  /\ cancelled = FALSE
  /\ acceptPc = "accept"
  /\ errorC = 0
  /\ mainPc = "serving"
  /\ ev = NoEvent

\* the daemon process is running
Alive == mainPc \notin {"exited", "crashed"}

----------------------------------------------------------------------------
(* The connection server: cermanager/server.go *)

\* Start's accept goroutine: Accept returned a connection
AcceptConn(c) ==
  /\ Alive
  /\ acceptPc = "accept"
  /\ conn[c] = "none"
  /\ \A d \in Conns : d < c => conn[d] # "none"
  /\ conn' = [conn EXCEPT ![c] = "open"]
  /\ pc' = [pc EXCEPT ![c] = "recv"]
  /\ group' = group + 1
  /\ acceptPc' = IF cancelled THEN "done" ELSE "accept"
  /\ ev' = [op |-> "Accept", c |-> c]
  /\ UNCHANGED <<nsVars, cpVars, stopVars, cref, cancelled, errorC, mainPc>>

\* Start's accept goroutine: Accept returned an error
AcceptError ==
  /\ Alive
  /\ acceptPc = "accept"
  /\ errorC = 0
  /\ errorC' = 1
  /\ acceptPc' = "done"
  /\ ev' = NoEvent
  /\ UNCHANGED <<nsVars, cpVars, stopVars, conn, pc, cref, group,
                 cancelled, mainPc>>

\* the end of a serve-loop iteration for connection c: the handler closed the
\* connection or not, then the select on ctx.Done()
EndIteration(c, close) ==
  /\ conn' = IF close THEN [conn EXCEPT ![c] = "closed"] ELSE conn
  /\ pc' = [pc EXCEPT ![c] = IF cancelled THEN "done" ELSE "recv"]
  /\ group' = IF cancelled THEN group - 1 ELSE group

\* serve: ReceiveServiceType failed (EOF, a broken frame, or the connection
\* was closed before); the connection is closed and the goroutine returns
RecvError(c) ==
  /\ Alive
  /\ pc[c] = "recv"
  /\ conn' = [conn EXCEPT ![c] = "closed"]
  /\ pc' = [pc EXCEPT ![c] = "done"]
  /\ group' = group - 1
  /\ ev' = [op |-> "RecvError", c |-> c]
  /\ UNCHANGED <<nsVars, cpVars, stopVars, cref, cancelled, acceptPc,
                 errorC, mainPc>>

\* serve as it would be if the unknown service type were only logged
UnknownServiceNoClose(c) ==
  /\ Alive
  /\ pc[c] = "recv"
  /\ conn[c] = "open"
  /\ EndIteration(c, FALSE)
  /\ ev' = [op |-> "UnknownService", c |-> c]
  /\ UNCHANGED <<nsVars, cpVars, stopVars, cref, cancelled, acceptPc,
                 errorC, mainPc>>

\* serve: the service type read is not a key of Server.services
UnknownService(c) ==
  /\ Alive
  /\ pc[c] = "recv"
  /\ conn[c] = "open"
  /\ EndIteration(c, TRUE)
  /\ ev' = [op |-> "UnknownService", c |-> c]
  /\ UNCHANGED <<nsVars, cpVars, stopVars, cref, cancelled, acceptPc,
                 errorC, mainPc>>

----------------------------------------------------------------------------
(* The namespace service: services/namespace *)

\* handleGetNamespace as it would be with `rsp.NSId = id` left out
GetNamespaceResultNoId(T, mgrs) ==
  IF T \notin DOMAIN mgrs
  THEN [rsp |-> [NSId |-> 0, Pid |-> 0, Fd |-> -1, Info |-> ErrNoSuchNamespace],
        mgr |-> "none", mgrs |-> mgrs]
  ELSE LET g == PoolGet(T, mgrs[T])
       IN IF g.err # ""
          THEN [rsp |-> [NSId |-> 0, Pid |-> 0, Fd |-> -1, Info |-> g.err],
                mgr |-> T, mgrs |-> [mgrs EXCEPT ![T] = g.pool]]
          ELSE [rsp |-> [NSId |-> 0, Pid |-> DaemonPid, Fd |-> g.fd, Info |-> g.info],
                mgr |-> T, mgrs |-> [mgrs EXCEPT ![T] = g.pool]]

\* handleGetNamespace as it would be with fd and id swapped in `mgr.Get`'s results
GetNamespaceResultSwapped(T, mgrs) ==
  IF T \notin DOMAIN mgrs
  THEN [rsp |-> [NSId |-> 0, Pid |-> 0, Fd |-> -1, Info |-> ErrNoSuchNamespace],
        mgr |-> "none", mgrs |-> mgrs]
  ELSE LET g == PoolGet(T, mgrs[T])
       IN IF g.err # ""
          THEN [rsp |-> [NSId |-> 0, Pid |-> 0, Fd |-> -1, Info |-> g.err],
                mgr |-> T, mgrs |-> [mgrs EXCEPT ![T] = g.pool]]
          ELSE [rsp |-> [NSId |-> g.fd, Pid |-> DaemonPid, Fd |-> g.id, Info |-> g.info],
                mgr |-> T, mgrs |-> [mgrs EXCEPT ![T] = g.pool]]

\* handleGetNamespace as it would be with the manager's error not checked
GetNamespaceResultErrIgnored(T, mgrs) ==
  IF T \notin DOMAIN mgrs
  THEN [rsp |-> [NSId |-> 0, Pid |-> 0, Fd |-> -1, Info |-> ErrNoSuchNamespace],
        mgr |-> "none", mgrs |-> mgrs]
  ELSE LET g == PoolGet(T, mgrs[T])
       IN [rsp |-> [NSId |-> g.id, Pid |-> DaemonPid, Fd |-> g.fd, Info |-> g.info],
           mgr |-> T, mgrs |-> [mgrs EXCEPT ![T] = g.pool]]

\* handleGetNamespace as it would be if a type without a manager fell back
\* to the UTS manager
GetNamespaceResultFallback(T, mgrs) ==
  LET t == IF T \in DOMAIN mgrs THEN T ELSE UTS
      g == PoolGet(t, mgrs[t])
  IN IF g.err # ""
     THEN [rsp |-> [NSId |-> 0, Pid |-> 0, Fd |-> -1, Info |-> g.err],
           mgr |-> t, mgrs |-> [mgrs EXCEPT ![t] = g.pool]]
     ELSE [rsp |-> [NSId |-> g.id, Pid |-> DaemonPid, Fd |-> g.fd, Info |-> g.info],
           mgr |-> t, mgrs |-> [mgrs EXCEPT ![t] = g.pool]]

\* handleGetNamespace, lines 136-151: the response built for a Get of type T
\* and the manager's pool afterwards (mgr: the manager that was called)
GetNamespaceResult(T, mgrs) ==
  IF T \notin DOMAIN mgrs
  THEN [rsp |-> [NSId |-> 0, Pid |-> 0, Fd |-> -1, Info |-> ErrNoSuchNamespace],
        mgr |-> "none", mgrs |-> mgrs]
  ELSE LET g == PoolGet(T, mgrs[T])
       IN IF g.err # ""
          THEN [rsp |-> [NSId |-> 0, Pid |-> 0, Fd |-> -1, Info |-> g.err],
                mgr |-> T, mgrs |-> [mgrs EXCEPT ![T] = g.pool]]
          ELSE [rsp |-> [NSId |-> g.id, Pid |-> DaemonPid, Fd |-> g.fd, Info |-> g.info],
                mgr |-> T, mgrs |-> [mgrs EXCEPT ![T] = g.pool]]

\* handlePutNamespace as it would be if a type without a manager fell back
\* to the UTS manager
PutNamespaceResultFallback(T, ID, mgrs) ==
  LET t == IF T \in DOMAIN mgrs THEN T ELSE UTS
      q == PoolPut(mgrs[t], ID)
  IN [rsp |-> [Error |-> q.err], mgr |-> t, mgrs |-> [mgrs EXCEPT ![t] = q.pool]]

\* handlePutNamespace as it would be if it answered without calling mgr.Put
PutNamespaceResultNoPut(T, ID, mgrs) ==
  IF T \notin DOMAIN mgrs
  THEN [rsp |-> [Error |-> ErrNoSuchNamespace], mgr |-> "none", mgrs |-> mgrs]
  ELSE [rsp |-> [Error |-> ""], mgr |-> T, mgrs |-> mgrs]

\* handlePutNamespace as it would be with the manager's error dropped
PutNamespaceResultErrDropped(T, ID, mgrs) ==
  IF T \notin DOMAIN mgrs
  THEN [rsp |-> [Error |-> ErrNoSuchNamespace], mgr |-> "none", mgrs |-> mgrs]
  ELSE LET q == PoolPut(mgrs[T], ID)
       IN [rsp |-> [Error |-> ""], mgr |-> T, mgrs |-> [mgrs EXCEPT ![T] = q.pool]]

\* handlePutNamespace, lines 161-169: the response built for a Put of ID to
\* type T and the manager's pool afterwards
PutNamespaceResult(T, ID, mgrs) ==
  IF T \notin DOMAIN mgrs
  THEN [rsp |-> [Error |-> ErrNoSuchNamespace], mgr |-> "none", mgrs |-> mgrs]
  ELSE LET q == PoolPut(mgrs[T], ID)
       IN [rsp |-> [Error |-> q.err], mgr |-> T, mgrs |-> [mgrs EXCEPT ![T] = q.pool]]

\* Handle / handleRequest: the method or the request body could not be read
\* (why = "codec"), or the method is neither Get nor Put (why = "method");
\* handleRequest returns the error and Handle closes the connection
NsRequestError(c, why) ==
  /\ Alive
  /\ pc[c] = "recv"
  /\ conn[c] = "open"
  /\ EndIteration(c, TRUE)
  /\ ev' = [op |-> "NsError", c |-> c, why |-> why]
  /\ UNCHANGED <<nsVars, cpVars, stopVars, cref, cancelled, acceptPc,
                 errorC, mainPc>>

\* serve -> Handle -> handleRequest -> handleGetNamespace for request {T, Arg};
\* sendOK: SendWithSizePrefix succeeded
HandleGetNamespace(c, T, sendOK) ==
  /\ Alive
  /\ pc[c] = "recv"
  /\ conn[c] = "open"
  /\ LET r == GetNamespaceResult(T, managers)
     IN /\ managers' = r.mgrs
        /\ outstanding' =
             IF r.rsp.Fd # -1 /\ r.rsp.NSId \in PutIds
             THEN [outstanding EXCEPT ![T][r.rsp.NSId] = @ + 1]
             ELSE outstanding
        /\ ev' = [op |-> "GetNamespace", c |-> c, T |-> T, mgr |-> r.mgr,
                  rsp |-> r.rsp, sent |-> sendOK, pre |-> managers]
  /\ EndIteration(c, ~sendOK)
  /\ UNCHANGED <<cpVars, stopVars, cref, cancelled, acceptPc, errorC, mainPc>>

\* serve -> Handle -> handleRequest -> handlePutNamespace for request {T, ID}
HandlePutNamespace(c, T, ID, sendOK) ==
  /\ Alive
  /\ pc[c] = "recv"
  /\ conn[c] = "open"
  /\ LET r == PutNamespaceResult(T, ID, managers)
     IN /\ managers' = r.mgrs
        /\ outstanding' =
             IF r.rsp.Error = "" /\ outstanding[T][ID] > 0
             THEN [outstanding EXCEPT ![T][ID] = @ - 1]
             ELSE outstanding
        /\ ev' = [op |-> "PutNamespace", c |-> c, T |-> T, ID |-> ID, mgr |-> r.mgr,
                  rsp |-> r.rsp, sent |-> sendOK, pre |-> managers]
  /\ EndIteration(c, ~sendOK)
  /\ UNCHANGED <<cpVars, stopVars, cref, cancelled, acceptPc, errorC, mainPc>>

----------------------------------------------------------------------------
(* The checkpoint service: services/checkpoint *)

ErrEmptyRef == "empty ref"
ErrMkdir == "failed to create dir"
ErrProvider == "provider error"

\* config.Type of the configuration modelled: the content-addressed provider
ProviderType == "ccfs"

\* initProvider: referenceMgr is set for the ccfs provider only
HasReferenceMgr == ProviderType = "ccfs"

\* path.Join(s.root, ref) for every ref of the model, computed once
TargetOf == [r \in Refs |-> PathJoin(Root, r)]

\* service.Get, line 328: target := path.Join(s.root, ref)
GetTarget(ref) == TargetOf[ref]

\* service.Get as it would be if the lookup in s.targets never found the target
GetCachedNever(target) == FALSE

\* service.Get, line 331: the target is recorded in s.targets
GetCached(target) == target \in targets

\* service.Get as it would be without s.m.Lock(): nothing is waited for
MutexFreeAlways == TRUE

\* service.Get, line 329: s.m.Lock() can proceed
MutexFree == m = 0

\* service.Get, line 332 / 341: the path returned for a target that is ready
GetReturn(target) == target

\* handleGetCheckpoint, lines 352-363, once Get(ref) has returned (path, err):
\* the error is only logged, Add is called when a reference manager exists,
\* the response {Path} is sent; then the end of the serve-loop iteration
Respond(c, ref, path, err, sendOK) ==
  /\ ev' = [op |-> "GetCheckpoint", c |-> c, ref |-> ref, rsp |-> [Path |-> path],
            err |-> err, added |-> HasReferenceMgr, sent |-> sendOK]
  /\ EndIteration(c, ~sendOK)

\* service.Handle: router.Handle returned an error and the connection is
\* closed: the method or the request body could not be read (why = "codec"),
\* or no handler is registered for the method (why = "method")
CpRouterError(c, why) ==
  /\ Alive
  /\ pc[c] = "recv"
  /\ conn[c] = "open"
  /\ EndIteration(c, TRUE)
  /\ ev' = [op |-> "CpError", c |-> c, why |-> why]
  /\ UNCHANGED <<nsVars, cpVars, stopVars, cref, cancelled, acceptPc,
                 errorC, mainPc>>

\* serve as it would be if it started Handle in a goroutine of its own and
\* went on reading: an empty-ref request of a connection is read and answered
\* while a Prepare for the same connection is in progress
GetCheckpointEmptyPipelined(c, sendOK) ==
  /\ Alive
  /\ pc[c] \in {"recv", "prepare"}
  /\ conn[c] = "open"
  /\ ev' = [op |-> "GetCheckpoint", c |-> c, ref |-> EmptyRef, rsp |-> [Path |-> NoPath],
            err |-> ErrEmptyRef, added |-> HasReferenceMgr, sent |-> sendOK]
  /\ conn' = IF sendOK THEN conn ELSE [conn EXCEPT ![c] = "closed"]
  /\ UNCHANGED <<nsVars, cpVars, stopVars, pc, cref, srvVars>>

\* service.Get as it would be without the check of lines 325-327: the empty
\* ref goes on to the lock, MkdirAll and provider.Prepare("", root)
GetCheckpointEmptyUnchecked(c, sendOK) ==
  /\ Alive
  /\ pc[c] = "recv"
  /\ conn[c] = "open"
  /\ MutexFree
  /\ m' = c
  /\ dirs' = dirs \cup {GetTarget(EmptyRef)}
  /\ prepCalls' = [prepCalls EXCEPT ![EmptyRef] = @ + 1]
  /\ pc' = [pc EXCEPT ![c] = "prepare"]
  /\ cref' = [cref EXCEPT ![c] = EmptyRef]
  /\ ev' = [op |-> "Prepare", c |-> c, ref |-> EmptyRef, target |-> GetTarget(EmptyRef)]
  /\ UNCHANGED <<nsVars, targets, prepOks, faults, stopVars, conn, group,
                 cancelled, acceptPc, errorC, mainPc>>

\* handleGetCheckpoint with request {Ref: ""}: Get fails before the lock
GetCheckpointEmpty(c, sendOK) ==
  /\ Alive
  /\ pc[c] = "recv"
  /\ conn[c] = "open"
  /\ Respond(c, EmptyRef, NoPath, ErrEmptyRef, sendOK)
  /\ UNCHANGED <<nsVars, targets, dirs, m, prepCalls, prepOks, faults, stopVars,
                 cref, cancelled, acceptPc, errorC, mainPc>>

\* handleGetCheckpoint with a ref whose target is recorded: Get takes the
\* lock, finds the target, releases the lock and returns it
GetCheckpointCached(c, ref, sendOK) ==
  /\ Alive
  /\ pc[c] = "recv"
  /\ conn[c] = "open"
  /\ ref # EmptyRef
  /\ MutexFree
  /\ GetCached(GetTarget(ref))
  /\ Respond(c, ref, GetReturn(GetTarget(ref)), "", sendOK)
  /\ UNCHANGED <<nsVars, targets, dirs, m, prepCalls, prepOks, faults, stopVars,
                 cref, cancelled, acceptPc, errorC, mainPc>>

\* handleGetCheckpoint with a ref whose target is not recorded, and
\* os.MkdirAll fails: Get releases the lock and returns the error
GetCheckpointMkdirFails(c, ref, sendOK) ==
  /\ Alive
  /\ pc[c] = "recv"
  /\ conn[c] = "open"
  /\ ref # EmptyRef
  /\ MutexFree
  /\ ~GetCached(GetTarget(ref))
  /\ faults < MaxFaults
  /\ faults' = faults + 1
  /\ Respond(c, ref, NoPath, ErrMkdir, sendOK)
  /\ UNCHANGED <<nsVars, targets, dirs, m, prepCalls, prepOks, stopVars,
                 cref, cancelled, acceptPc, errorC, mainPc>>

\* handleGetCheckpoint with a ref whose target is not recorded: Get takes the
\* lock, creates the directory and calls provider.Prepare(ref, target)
GetCheckpointPrepare(c, ref) ==
  /\ Alive
  /\ pc[c] = "recv"
  /\ conn[c] = "open"
  /\ ref # EmptyRef
  /\ MutexFree
  /\ ~GetCached(GetTarget(ref))
  /\ m' = c
  /\ dirs' = dirs \cup {GetTarget(ref)}
  /\ prepCalls' = [prepCalls EXCEPT ![ref] = @ + 1]
  /\ pc' = [pc EXCEPT ![c] = "prepare"]
  /\ cref' = [cref EXCEPT ![c] = ref]
  /\ ev' = [op |-> "Prepare", c |-> c, ref |-> ref, target |-> GetTarget(ref)]
  /\ UNCHANGED <<nsVars, targets, prepOks, faults, stopVars, conn, group, cancelled, acceptPc, errorC, mainPc>>

\* service.Get, line 340, while service.Stop ranges over s.targets without the
\* lock: the new entry is visited by the loop, skipped by it, or the runtime
\* stops the process ("concurrent map iteration and map write")
RaceOutcomes == IF stopping = "checkpoint" THEN {"visit", "skip", "fatal"} ELSE {"none"}

\* provider.Prepare returned nil: the target is recorded, the lock released,
\* and Get returns the target
PrepareSucceeds(c, race, sendOK) ==
  /\ Alive
  /\ pc[c] = "prepare"
  /\ race \in RaceOutcomes
  /\ LET ref == cref[c]
         target == GetTarget(ref)
     IN /\ targets' = targets \cup {target}
        /\ prepOks' = [prepOks EXCEPT ![ref] = @ + 1]
        /\ stopPending' = IF race = "visit" /\ target \notin targets
                          THEN stopPending \cup {target} ELSE stopPending
        /\ Respond(c, ref, GetReturn(target), "", sendOK)
  /\ m' = 0
  /\ cref' = [cref EXCEPT ![c] = EmptyRef]
  /\ mainPc' = IF race = "fatal" THEN "crashed" ELSE mainPc
  /\ UNCHANGED <<nsVars, dirs, prepCalls, faults, removeCalls, stopErr, stopped,
                 stopping, cancelled, acceptPc, errorC>>

\* service.Get as it would be if the target were recorded before the error
\* of provider.Prepare is looked at
PrepareFailsRecorded(c, sendOK) ==
  /\ Alive
  /\ pc[c] = "prepare"
  /\ faults < MaxFaults
  /\ faults' = faults + 1
  /\ targets' = targets \cup {GetTarget(cref[c])}
  /\ Respond(c, cref[c], NoPath, ErrProvider, sendOK)
  /\ m' = 0
  /\ cref' = [cref EXCEPT ![c] = EmptyRef]
  /\ UNCHANGED <<nsVars, dirs, prepCalls, prepOks, stopVars, cancelled, acceptPc,
                 errorC, mainPc>>

\* provider.Prepare returned an error: the lock is released and Get returns it
PrepareFails(c, sendOK) ==
  /\ Alive
  /\ pc[c] = "prepare"
  /\ faults < MaxFaults
  /\ faults' = faults + 1
  /\ Respond(c, cref[c], NoPath, ErrProvider, sendOK)
  /\ m' = 0
  /\ cref' = [cref EXCEPT ![c] = EmptyRef]
  /\ UNCHANGED <<nsVars, targets, dirs, prepCalls, prepOks, stopVars, cancelled, acceptPc, errorC, mainPc>>

----------------------------------------------------------------------------
(* The start command and Shutdown *)

Services == {"namespace", "checkpoint"}

\* startCommand, lines 29-30: done is signalled (SIGINT/SIGTERM, or an error
\* on errorC) and the context is cancelled
Cancel ==
  /\ mainPc = "serving"
  /\ cancelled' = TRUE
  /\ mainPc' = "waiting"
  /\ ev' = NoEvent
  /\ UNCHANGED <<nsVars, cpVars, stopVars, conn, pc, cref, group,
                 acceptPc, errorC>>

\* Shutdown, line 131: s.group.Wait() returns
ShutdownWait ==
  /\ mainPc = "waiting"
  /\ group = 0
  /\ mainPc' = "stopping"
  /\ ev' = NoEvent
  /\ UNCHANGED <<nsVars, cpVars, stopVars, conn, pc, cref, group,
                 cancelled, acceptPc, errorC>>

\* Shutdown, line 133, for the namespace service: Stop calls CleanUp on every
\* manager and returns nil
NamespaceStop ==
  /\ mainPc = "stopping"
  /\ stopping = "none"
  /\ "namespace" \notin stopped
  /\ stopped' = stopped \cup {"namespace"}
  /\ ev' = NoEvent
  /\ UNCHANGED <<nsVars, cpVars, removeCalls, stopErr, stopPending, stopping,
                 conn, pc, cref, srvVars>>

\* service.Stop, line 313: the range over s.targets starts
CheckpointStopBegin ==
  /\ mainPc = "stopping"
  /\ stopping = "none"
  /\ "checkpoint" \notin stopped
  /\ stopping' = "checkpoint"
  /\ stopPending' = targets
  /\ stopErr' = {}
  /\ ev' = NoEvent
  /\ UNCHANGED <<nsVars, cpVars, removeCalls, stopped, conn, pc, cref,
                 srvVars>>

\* service.Stop, lines 314-316: provider.Remove(t) for the next target of the
\* range; a failure is appended to `failed` and the loop goes on
CheckpointStopRemove(t, ok) ==
  /\ mainPc = "stopping"
  /\ stopping = "checkpoint"
  /\ t \in stopPending
  /\ stopPending' = stopPending \ {t}
  /\ removeCalls' = [removeCalls EXCEPT ![t] = @ + 1]
  /\ stopErr' = IF ok THEN stopErr ELSE stopErr \cup {t}
  /\ dirs' = IF ok THEN dirs \ {t} ELSE dirs
  /\ ev' = [op |-> "Remove", target |-> t, ok |-> ok]
  /\ UNCHANGED <<nsVars, targets, m, prepCalls, prepOks, faults, stopped,
                 stopping, conn, pc, cref, srvVars>>

\* service.Stop, lines 318-321: the range is over; the error returned joins
\* the failures (stopErr), and is nil when there were none
CheckpointStopEnd ==
  /\ mainPc = "stopping"
  /\ stopping = "checkpoint"
  /\ stopPending = {}
  /\ stopping' = "none"
  /\ stopped' = stopped \cup {"checkpoint"}
  /\ ev' = [op |-> "StopReturn", failed |-> stopErr]
  /\ UNCHANGED <<nsVars, cpVars, removeCalls, stopErr, stopPending, conn, pc, cref, srvVars>>

\* Shutdown returns, and with it the start command: the process exits
Exit ==
  /\ mainPc = "stopping"
  /\ stopped = Services
  /\ mainPc' = "exited"
  /\ ev' = NoEvent
  /\ UNCHANGED <<nsVars, cpVars, stopVars, conn, pc, cref, group,
                 cancelled, acceptPc, errorC>>

----------------------------------------------------------------------------



----------------------------------------------------------------------------
(* Specifications.  Spec is the whole daemon.  SpecNS and SpecCP are the    *)
(* daemon with clients that speak to one service only: the namespace        *)
(* service's actions leave the checkpoint service's variables unchanged,    *)
(* and conversely, so what holds of one service's variables under its       *)
(* specification holds of them under Spec.                                  *)

\* the accept loop, the serve loop's own exits, and Shutdown
ServerNext ==
  \/ \E c \in Conns : AcceptConn(c)
  \/ AcceptError
  \/ \E c \in Conns : RecvError(c)
  \/ \E c \in Conns : UnknownService(c)
  \/ Cancel
  \/ ShutdownWait
  \/ NamespaceStop
  \/ CheckpointStopBegin
  \/ CheckpointStopEnd
  \/ Exit

\* requests to the namespace service
NsNext ==
  \/ \E c \in Conns, why \in {"codec", "method"} : NsRequestError(c, why)
  \/ \E c \in Conns, T \in ReqTypes, sendOK \in BOOLEAN : HandleGetNamespace(c, T, sendOK)
  \/ \E c \in Conns, q \in PutRequests, sendOK \in BOOLEAN :
       HandlePutNamespace(c, q[1], q[2], sendOK)

\* requests to the checkpoint service, and what its Stop does with their targets
CpNext ==
  \/ \E c \in Conns, why \in {"codec", "method"} : CpRouterError(c, why)
  \/ \E c \in Conns, sendOK \in BOOLEAN : GetCheckpointEmpty(c, sendOK)
  \/ \E c \in Conns, ref \in Refs, sendOK \in BOOLEAN : GetCheckpointCached(c, ref, sendOK)
  \/ \E c \in Conns, ref \in Refs, sendOK \in BOOLEAN : GetCheckpointMkdirFails(c, ref, sendOK)
  \/ \E c \in Conns, ref \in Refs : GetCheckpointPrepare(c, ref)
  \/ \E c \in Conns, race \in {"none", "visit", "skip", "fatal"}, sendOK \in BOOLEAN :
       PrepareSucceeds(c, race, sendOK)
  \/ \E c \in Conns, sendOK \in BOOLEAN : PrepareFails(c, sendOK)
  \/ \E t \in Paths, ok \in BOOLEAN : CheckpointStopRemove(t, ok)

SpecNS == Init /\ [][ServerNext \/ NsNext]_vars

SpecCP == Init /\ [][ServerNext \/ CpNext]_vars

\* what the daemon does without any client: a read on a connection the
\* daemon closed fails, a provider.Prepare in progress returns, Shutdown
\* goes on once the wait group is at zero
ClosedConnRead == \E c \in Conns : conn[c] = "closed" /\ RecvError(c)
PrepareReturns ==
  \E c \in Conns, race \in {"none", "visit", "skip", "fatal"}, sendOK \in BOOLEAN :
    PrepareSucceeds(c, race, sendOK)
ShutdownSteps ==
  \/ ShutdownWait
  \/ NamespaceStop
  \/ CheckpointStopBegin
  \/ \E t \in Paths, ok \in BOOLEAN : CheckpointStopRemove(t, ok)
  \/ CheckpointStopEnd
  \/ Exit

\* the scheduling of the Go runtime: a goroutine that can take a step on its
\* own takes it.  Nothing is assumed of the clients: no fairness for a new
\* connection, a request, or an EOF on a connection that is open.
Fairness ==
  /\ WF_vars(ClosedConnRead)
  /\ WF_vars(PrepareReturns)
  /\ WF_vars(ShutdownSteps)

SpecNSFair == SpecNS /\ Fairness

SpecCPFair == SpecCP /\ Fairness

Next == ServerNext \/ NsNext \/ CpNext

Spec == Init /\ [][Next]_vars

----------------------------------------------------------------------------
(* Properties of the namespace service (stated for SpecNS) *)

RECURSIVE SumOver(_, _)
\* the sum of f over the finite set S
SumOver(f, S) ==
  IF S = {} THEN 0
  ELSE LET x == CHOOSE y \in S : TRUE IN f[x] + SumOver(f, S \ {x})

\* the number of Gets of type t that are outstanding
Outstanding(t) == SumOver(outstanding[t], PutIds)

IsGet == ev.op = "GetNamespace"
IsPut == ev.op = "PutNamespace"

\* C2: in a pool, no two Gets that are outstanding at the same time hold the
\* same id, whatever the interleaving of the Gets and Puts of the connections
C2_NoTwoOutstandingShareId ==
  \A t \in NsTypes : \A i \in PutIds : outstanding[t][i] <= 1

\* C2: both ids of the UTS pool are outstanding, the last handed to
\* connection 2 while connection 1 is still being served
C2_Witness ==
  /\ IsGet /\ ev.c = 2 /\ ev.T = UTS /\ ev.rsp.Fd # -1
  /\ pc[1] = "recv" /\ conn[1] = "open"
  /\ \A i \in 0..(CapUTS - 1) : outstanding[UTS][i] = 1

\* C3: a Get on a pool of capacity N that succeeds returns an id in [0, N),
\* and a Get fails only when N Gets are outstanding: while at most N are
\* outstanding none fails with fewer than N outstanding
C3_NoExhaustionIdInRange ==
  IsGet /\ ev.T \in NsTypes =>
    /\ ev.rsp.Fd # -1 => ev.rsp.NSId \in 0..(Capacity[ev.T] - 1)
    /\ ev.rsp.Fd = -1 => Outstanding(ev.T) = Capacity[ev.T]
    /\ Outstanding(ev.T) <= Capacity[ev.T]

\* C3: a Get succeeded after an id had been put back, with fewer than N outstanding
C3_Witness ==
  /\ IsGet /\ ev.T = UTS /\ ev.rsp.Fd # -1
  /\ ev.rsp.NSId = 0
  /\ Outstanding(UTS) = 1

\* C4: a Get on a pool whose available stack is empty builds the response
\* Fd = -1, Info = "Exhausted" and leaves every pool (all and available) as
\* it was: no resource is created
C4_EmptyPoolGetExhausted ==
  IsGet /\ ev.T \in NsTypes /\ ev.pre[ev.T].available = <<>> =>
    /\ ev.rsp.Fd = -1
    /\ ev.rsp.Info = ErrExhausted
    /\ ev.mgr = ev.T
    /\ managers = ev.pre

\* C4: every UTS resource is outstanding and one more Get was answered and sent
C4_Witness ==
  /\ IsGet /\ ev.T = UTS /\ ev.sent
  /\ ev.rsp.Fd = -1
  /\ Outstanding(UTS) = CapUTS
  /\ managers[UTS].all = 0..(CapUTS - 1)

\* C5: a Put of an id that is already available builds a response with the
\* error NotInUse and leaves every pool's all and available as they were
C5_DoublePutRejected ==
  IsPut /\ ev.T \in NsTypes /\ InSeq(ev.ID, ev.pre[ev.T].available) =>
    /\ ev.rsp.Error = ErrNotInUse
    /\ ev.rsp.Error # ""
    /\ managers = ev.pre

\* C5: id 1 was handed out and put back, and a second Put of it was rejected
C5_Witness ==
  /\ IsPut /\ ev.T = UTS /\ ev.ID = CapUTS - 1 /\ ev.sent
  /\ ev.rsp.Error = ErrNotInUse
  /\ managers[UTS].available # NewManager(CapUTS).available

\* C6: a Get whose type has no manager builds the response Fd = -1,
\* Info = "No such namespace", calls no manager and leaves every pool as it was
C6_UnknownTypeGet ==
  IsGet /\ ev.T \notin NsTypes =>
    /\ ev.rsp.Fd = -1
    /\ ev.rsp.Info = "No such namespace"
    /\ ev.mgr = "none"
    /\ managers = ev.pre

\* C6: a Get of an unknown type was answered while a UTS resource was outstanding
C6_Witness ==
  /\ IsGet /\ ev.T \notin NsTypes /\ ev.sent
  /\ Outstanding(UTS) = 1

----------------------------------------------------------------------------
(* Properties of the serve loop and of request errors (stated for SpecNS) *)

\* the events of a service's Handle, and the connection an event is about
HandlerOps == {"NsError", "GetNamespace", "PutNamespace",
               "CpError", "GetCheckpoint", "Prepare"}
EvConn(e) == IF "c" \in DOMAIN e THEN e.c ELSE 0

\* the request just handled failed for a reason other than the wire codec
RequestError ==
  \/ ev.op \in {"NsError", "CpError"} /\ ev.why = "method"
  \/ IsGet /\ ev.rsp.Fd = -1
  \/ IsPut /\ ev.rsp.Error # ""
  \/ ev.op = "GetCheckpoint" /\ ev.err # ""

\* C7: every per-request error (unknown namespace type, unknown method, pool
\* error, empty ref, provider error) is answered with a response and leaves
\* the connection open, unless the codec failed while the response was sent
C7_RequestErrorsAnsweredConnKept ==
  RequestError =>
    /\ ev.op \in {"GetNamespace", "PutNamespace", "GetCheckpoint"}
    /\ ev.sent => conn[ev.c] = "open"

\* C8: a connection that sent an unregistered service type is closed by that
\* step, which touches neither the accept loop nor another connection; once
\* closed it stays closed, no service's Handle runs for it, and its handler
\* can only terminate, which it is able to do while the daemon runs
C8_UnknownServiceClosesConn ==
  /\ [](\A c \in Conns :
          conn[c] = "closed" /\ pc[c] = "recv" /\ Alive => ENABLED RecvError(c))
  /\ [][\A c \in Conns :
          /\ ev'.op = "UnknownService" /\ ev'.c = c =>
               /\ conn[c] = "open" /\ conn'[c] = "closed"
               /\ acceptPc' = acceptPc /\ errorC' = errorC
               /\ \A d \in Conns \ {c} : conn'[d] = conn[d] /\ pc'[d] = pc[d]
          /\ conn[c] = "closed" =>
               /\ conn'[c] = "closed"
               /\ ~(ev'.op \in HandlerOps /\ EvConn(ev') = c)
               /\ pc'[c] # pc[c] => pc'[c] = "done"]_vars

\* C8: connection 1 was just closed for an unregistered service type, its
\* handler has not returned yet, and the accept loop waits for connection 2
C8_Witness ==
  /\ ev.op = "UnknownService" /\ ev.c = 1
  /\ conn[1] = "closed" /\ pc[1] = "recv"
  /\ acceptPc = "accept" /\ conn[2] = "none"

----------------------------------------------------------------------------
(* Properties of the checkpoint service (stated for SpecCP) *)

\* the path a successful Get(ref) has to return: the root and the one
\* component the refs of the model name
ExpectedPath(ref) == Root \o <<Head(ref)>>

\* every Get(ref) that returned a path returned the path of its ref
SamePath ==
  ev.op = "GetCheckpoint" /\ ev.err = "" => ev.rsp.Path = ExpectedPath(ev.ref)

\* C1 as stated: provider.Prepare is invoked at most once per distinct ref,
\* and every Get(ref) returns the same path
C1_PrepareAtMostOncePerRef ==
  /\ \A r \in Refs : prepCalls[r] <= 1
  /\ SamePath

\* C1: provider.Prepare succeeds at most once per ref and per target, it is
\* never invoked for a target that is recorded (so it is invoked again only
\* after a Prepare or MkdirAll failure), and every Get(ref) that succeeds
\* returns the same path
C1_PrepareSucceedsOncePerRef ==
  /\ \A r \in Refs : prepOks[r] <= 1 /\ prepCalls[r] <= 1 + faults
  /\ \A r1, r2 \in Refs :
       r1 # r2 /\ GetTarget(r1) = GetTarget(r2) => prepOks[r1] + prepOks[r2] <= 1
  /\ ev.op = "Prepare" =>
       /\ ev.target \notin targets
       /\ \A r \in Refs : GetTarget(r) = ev.target => prepOks[r] = 0
  /\ SamePath

\* C1: Prepare of ref "a" failed, a second Get("a") called Prepare again,
\* which succeeded, and the Get returned the path
C1_Witness ==
  /\ prepCalls[<<"a">>] = 2 /\ prepOks[<<"a">>] = 1
  /\ ev.op = "GetCheckpoint" /\ ev.ref = <<"a">> /\ ev.err = ""
  /\ ev.rsp.Path = <<"/", "var", "lib", "cermanager", "checkpoint", "a">>

\* C9: when Shutdown has returned, Provider.Remove was invoked exactly once
\* for each target that was prepared and for no other path, and the error
\* Stop returned names exactly the removals that failed
C9_RemoveOncePerPreparedTarget ==
  /\ mainPc = "exited" =>
       \A p \in Paths : removeCalls[p] = IF p \in targets THEN 1 ELSE 0
  /\ ev.op = "Remove" /\ ~ev.ok => ev.target \in stopErr
  /\ ev.op = "StopReturn" => ev.failed = stopErr

\* C10: a GetCheckpoint with an empty ref fails with "empty ref", is answered
\* with an empty Path, calls neither MkdirAll nor Prepare and leaves the
\* targets map and the lock as they were; Prepare is never called for it
C10_EmptyRefRejected ==
  [][/\ ev'.op = "GetCheckpoint" /\ ev'.ref = EmptyRef =>
          /\ ev'.err = ErrEmptyRef
          /\ ev'.rsp.Path = NoPath
          /\ targets' = targets /\ prepCalls' = prepCalls
          /\ dirs' = dirs /\ m' = m
     /\ ev'.op = "Prepare" => ev'.ref # EmptyRef]_vars

\* C10: an empty ref was answered while a prepared target was recorded
C10_Witness ==
  /\ ev.op = "GetCheckpoint" /\ ev.ref = EmptyRef /\ ev.sent
  /\ ev.rsp.Path = NoPath /\ ev.err = ErrEmptyRef
  /\ targets # {} /\ conn[ev.c] = "open"

----------------------------------------------------------------------------
(* Properties of cancellation and Shutdown *)

\* a serve goroutine was started for connection c and has not returned
Running(c) == pc[c] \in {"recv", "prepare"}

\* the step is Shutdown invoking a service's Stop (line 133)
StopInvoked ==
  \/ "namespace" \in stopped' /\ "namespace" \notin stopped
  \/ stopping = "none" /\ stopping' = "checkpoint"

\* C11: at the moment Shutdown invokes a service's Stop, every connection
\* handler that was ever started has terminated, the handlers of connections
\* accepted after cancellation included
C11_StopAfterHandlersDrained ==
  [][StopInvoked => \A c \in Conns : ~Running(c)]_vars

\* C12: once the context is cancelled the accept loop terminates (at the
\* latest with the process) without a further connection having to arrive,
\* and once it has observed cancellation it starts no handler
C12_AcceptLoopExitsOnCancel ==
  /\ cancelled ~> (acceptPc = "done" \/ ~Alive)
  /\ [][acceptPc = "done" => \A c \in Conns : pc[c] = "none" => pc'[c] = "none"]_vars

----------------------------------------------------------------------------
(* Further properties of the checkpoint service *)

\* C13: while the checkpoint service runs and no Get is in its critical
\* section, a target directory exists on disk if and only if the target is
\* recorded in the targets set, also after a Get whose Prepare failed
C13_DirExistsIffRecorded ==
  MutexFree /\ stopping = "none" /\ "checkpoint" \notin stopped => dirs = targets

\* C14: with the content-addressed provider, Add(ref) is invoked after every
\* successful Get(ref) and only then: a GetCheckpoint whose Get failed (empty
\* ref, MkdirAll or Prepare error) triggers no Add
C14_AddOnlyAfterSuccessfulGet ==
  HasReferenceMgr /\ ev.op = "GetCheckpoint" => (ev.added <=> ev.err = "")

----------------------------------------------------------------------------
(* Further properties of the namespace service *)

\* the id on top of a pool's available stack (-1 when the stack is empty)
Top(p) == IF p.available = <<>> THEN -1 ELSE p.available[Len(p.available)]

PutOk == IsPut /\ ev.T \in NsTypes /\ ev.rsp.Error = ""

\* C15: reuse is LIFO.  A successful Put(id) leaves id on top of its pool, a
\* pool changes only by a Get or Put of its own type, and a Get returns the
\* top of its pool: so a Get with no operation on that pool since the last
\* successful Put(id) returns id; in particular the Get that directly
\* follows a successful Put(T, id) on the same type returns id
C15_ReuseIsLIFO ==
  /\ [](PutOk => Top(managers[ev.T]) = ev.ID)
  /\ [](IsGet /\ ev.T \in NsTypes /\ ev.pre[ev.T].available # <<>> =>
          ev.rsp.Fd # -1 /\ ev.rsp.NSId = Top(ev.pre[ev.T]))
  /\ [][\A t \in NsTypes :
          managers'[t] # managers[t] =>
            ev'.op \in {"GetNamespace", "PutNamespace"} /\ ev'.T = t]_vars
  /\ [][PutOk /\ ev'.op = "GetNamespace" /\ ev'.T = ev.T =>
          ev'.rsp.Fd # -1 /\ ev'.rsp.NSId = ev.ID]_vars

\* C15: the UTS pool was exhausted, its first id taken was put back, and the
\* next Get on the pool returned that id while the others are outstanding
C15_Witness ==
  /\ IsGet /\ ev.T = UTS /\ ev.rsp.Fd # -1
  /\ ev.pre[UTS].available = <<CapUTS - 1>>
  /\ ev.rsp.NSId = CapUTS - 1
  /\ Outstanding(UTS) = CapUTS

----------------------------------------------------------------------------
(* Properties of the serve loop and the checkpoint lock (stated for SpecCP) *)

\* a Get of connection c is inside provider.Prepare
InPrepare(c) == pc[c] = "prepare"

\* C16: a connection's requests are handled one at a time and answered in
\* order: while a request of connection c is being handled, the only step of
\* c's handler is the response to that very request, after which the handler
\* reads again or returns; no request of c is read in between
C16_OneRequestAtATimePerConn ==
  [][\A c \in Conns :
       InPrepare(c) /\ (EvConn(ev') = c \/ pc'[c] # pc[c]) =>
         /\ ev'.op = "GetCheckpoint" /\ ev'.c = c
         /\ ev'.ref = cref[c]
         /\ pc'[c] \in {"recv", "done"}]_vars

\* C16: the handler of connection 1 is inside Prepare, and meanwhile the
\* handler of connection 2 has read and answered a request
C16_Witness ==
  /\ InPrepare(1) /\ cref[1] = <<"a">>
  /\ ev.op = "GetCheckpoint" /\ ev.c = 2 /\ ev.sent
  /\ pc[2] = "recv" /\ conn[2] = "open"

\* C17: provider.Prepare runs under the service's one lock: at most one
\* Prepare is in progress at any time, whatever the refs, the lock is held
\* by the Get that is in it, and while it is in progress no other Get reads
\* or updates the targets map, be it for a target that is already recorded:
\* the only Get that completes or starts past the lock is the one in Prepare
C17_PrepareUnderSingleLock ==
  /\ [](\A c, d \in Conns : InPrepare(c) /\ InPrepare(d) => c = d)
  /\ [](\A c \in Conns : InPrepare(c) => m = c)
  /\ [][\A c \in Conns :
          InPrepare(c) =>
            /\ ev'.op # "Prepare"
            /\ ev'.op = "GetCheckpoint" /\ ev'.ref # EmptyRef => ev'.c = c
            /\ targets' # targets => ev'.op = "GetCheckpoint" /\ ev'.c = c]_vars

\* C17: connection 1 is inside Prepare for ref "b" and holds the lock, the
\* target of ref "a" is recorded, and connection 2 is open and being served
C17_Witness ==
  /\ InPrepare(1) /\ cref[1] = <<"b">> /\ m = 1
  /\ GetTarget(<<"a">>) \in targets
  /\ pc[2] = "recv" /\ conn[2] = "open"

\* C18: when provider.Prepare fails, the Get returns the error (the response
\* has an empty Path), releases the lock and leaves the targets map as it
\* was, so the target is not recorded: a later Get for the ref is not served
\* from the map, and Stop calls Remove for recorded targets only
C18_FailedPrepareNotCached ==
  /\ [][ev'.op = "GetCheckpoint" /\ ev'.err = ErrProvider =>
          /\ ev'.rsp.Path = NoPath
          /\ targets' = targets
          /\ m' = 0
          /\ GetTarget(ev'.ref) \notin targets']_vars
  /\ [](\A p \in Paths : removeCalls[p] > 0 => p \in targets)

\* C18: Prepare failed for ref "a", nothing is recorded, and a later Get for
\* "a" has called Prepare again
C18_Witness ==
  /\ ev.op = "Prepare" /\ ev.ref = <<"a">>
  /\ prepCalls[<<"a">>] = 2 /\ prepOks[<<"a">>] = 0 /\ faults = 1
  /\ targets = {}

\* C19: after the context is cancelled every connection handler eventually
\* terminates and Shutdown eventually returns, also when a client keeps its
\* connection open and sends nothing more
C19_ShutdownCompletes ==
  /\ cancelled ~> (\A c \in Conns : ~Running(c))
  /\ cancelled ~> (mainPc \in {"exited", "crashed"})

\* C20: a Put whose type has no manager builds the response
\* Error = "No such namespace", calls no manager and leaves every pool as it
\* was; the connection stays open once the response is sent
C20_UnknownTypePut ==
  IsPut /\ ev.T \notin NsTypes =>
    /\ ev.rsp.Error = "No such namespace"
    /\ ev.mgr = "none"
    /\ managers = ev.pre
    /\ ev.sent => conn[ev.c] = "open"

\* C20: a Put of an unknown type was answered while a UTS id was outstanding,
\* and the connection is still served
C20_Witness ==
  /\ IsPut /\ ev.T \notin NsTypes /\ ev.sent
  /\ Outstanding(UTS) = 1
  /\ conn[ev.c] = "open" /\ pc[ev.c] = "recv"

====
